---- MODULE Spec2Model ----
(***************************************************************************)
(* rtd3.py: reading and normalising sysfs/procfs nodes, validating them    *)
(* against the RTD3 requirements, and the backup-then-write installation   *)
(* of the udev and modprobe files.                                         *)
(*                                                                         *)
(* Texts are sequences of one-character strings, so that strip, split,     *)
(* splitlines, the substring test and int() are computed character by      *)
(* character as Python computes them.  A Python call that can raise is an  *)
(* operator returning [exc, val]: exc = "none" and the value, or the name  *)
(* of the exception.                                                       *)
(***************************************************************************)
EXTENDS Integers, Sequences, FiniteSets, TLC

VARIABLES
    text,       \* pure calls: the raw text handed to the function
    call,       \* pure calls: the last call made, [fn, key, exc, val], or NoCall
    fs,         \* the files that exist: path -> content
    dirs,       \* the directories that exist
    hist,       \* the last two _create_file calls, the older first
    ncalls,     \* number of commands run so far
    nodes,      \* the readable sysfs/procfs nodes: path -> text (a missing path: unreadable)
    listing,    \* the directory listings: [gpus, power_supply]
    scan        \* the outcome of the last verify or state command, or NoScan

vars == <<text, call, fs, dirs, hist, ncalls, nodes, listing, scan>>

(***************************************************************************)
(* Bounds                                                                  *)
(***************************************************************************)
MaxFrags == 3       \* a raw text is built of at most MaxFrags fragments
MaxCalls == 2       \* _create_file calls in one behaviour of SpecCreate
MaxInstalls == 1    \* install commands in one behaviour of SpecInstall
MaxSlots == 2       \* GPU slots listed under /proc/driver/nvidia/gpus/
MaxSupplies == 2    \* entries listed under /sys/class/power_supply/

(***************************************************************************)
(* Python string primitives                                                *)
(***************************************************************************)
Min(S) == CHOOSE x \in S : \A y \in S : x <= y
Max(S) == CHOOSE x \in S : \A y \in S : x >= y

\* str.isspace() characters that occur in the texts
WS == {" ", "\n", "\t", "\r"}
\* the line boundaries of str.splitlines() that occur in the texts
LineBreaks == {"\n", "\r"}
Digits == {"0", "1", "2", "3", "4", "5", "6", "7", "8", "9"}

DigitVal(c) ==
    CASE c = "0" -> 0 [] c = "1" -> 1 [] c = "2" -> 2 [] c = "3" -> 3
      [] c = "4" -> 4 [] c = "5" -> 5 [] c = "6" -> 6 [] c = "7" -> 7
      [] c = "8" -> 8 [] c = "9" -> 9

\* sub occurs in s at position i
MatchAt(sub, s, i) ==
    /\ i + Len(sub) - 1 <= Len(s)
    /\ \A j \in 1..Len(sub) : s[i + j - 1] = sub[j]

\* Python: sub in s
Contains(sub, s) == \E i \in 1..(Len(s) + 1) : MatchAt(sub, s, i)

\* a faulty variant of Strip: s.lstrip(), trailing whitespace kept
StripLeadingOnly(s) ==
    LET keep == {i \in 1..Len(s) : s[i] \notin WS}
    IN  IF keep = {} THEN <<>> ELSE SubSeq(s, Min(keep), Len(s))

\* Python: s.strip()
Strip(s) ==
    LET keep == {i \in 1..Len(s) : s[i] \notin WS}
    IN  IF keep = {} THEN <<>> ELSE SubSeq(s, Min(keep), Max(keep))

\* Python: s.split(), the whitespace-separated tokens
RECURSIVE SplitWS(_)
SplitWS(s) ==
    LET keep == {i \in 1..Len(s) : s[i] \notin WS}
    IN  IF keep = {} THEN <<>>
        ELSE LET b == Min(keep)
                 stops == {i \in b..Len(s) : s[i] \in WS}
                 e == IF stops = {} THEN Len(s) + 1 ELSE Min(stops)
             IN  <<SubSeq(s, b, e - 1)>> \o SplitWS(SubSeq(s, e, Len(s)))

\* Python: s.split(c), every separator splits, empty pieces kept
RECURSIVE SplitOn(_, _)
SplitOn(c, s) ==
    LET at == {i \in 1..Len(s) : s[i] = c}
    IN  IF at = {} THEN <<s>>
        ELSE <<SubSeq(s, 1, Min(at) - 1)>> \o SplitOn(c, SubSeq(s, Min(at) + 1, Len(s)))

\* Python: s.split(c, 1), at most one split
SplitOnce(c, s) ==
    LET at == {i \in 1..Len(s) : s[i] = c}
    IN  IF at = {} THEN <<s>>
        ELSE <<SubSeq(s, 1, Min(at) - 1), SubSeq(s, Min(at) + 1, Len(s))>>

\* Python: s.splitlines(); "\r\n" is one boundary, no empty last line
RECURSIVE SplitLines(_)
SplitLines(s) ==
    IF s = <<>> THEN <<>>
    ELSE LET at == {i \in 1..Len(s) : s[i] \in LineBreaks}
         IN  IF at = {} THEN <<s>>
             ELSE LET n == Min(at)
                      m == IF s[n] = "\r" /\ n < Len(s) /\ s[n + 1] = "\n"
                           THEN n + 1 ELSE n
                  IN  <<SubSeq(s, 1, n - 1)>> \o SplitLines(SubSeq(s, m + 1, Len(s)))

\* Python: sep.join(parts)
RECURSIVE Join(_, _)
Join(sep, parts) ==
    IF parts = <<>> THEN <<>>
    ELSE IF Len(parts) = 1 THEN parts[1]
    ELSE parts[1] \o sep \o Join(sep, Tail(parts))

RECURSIVE DigitsValue(_)
DigitsValue(ds) ==
    IF ds = <<>> THEN 0
    ELSE 10 * DigitsValue(SubSeq(ds, 1, Len(ds) - 1)) + DigitVal(ds[Len(ds)])

\* Python: int(s).  Surrounding whitespace is dropped, one sign is allowed,
\* then digits, with single underscores allowed between digits.
PyInt(s) ==
    LET t == Strip(s)
        signed == t # <<>> /\ t[1] \in {"+", "-"}
        body == IF signed THEN Tail(t) ELSE t
        wellFormed ==
            /\ body # <<>>
            /\ \A i \in 1..Len(body) : body[i] \in Digits \cup {"_"}
            /\ body[1] # "_" /\ body[Len(body)] # "_"
            /\ \A i \in 1..(Len(body) - 1) : ~(body[i] = "_" /\ body[i + 1] = "_")
        ds == SelectSeq(body, LAMBDA c : c \in Digits)
        n == DigitsValue(ds)
    IN  IF wellFormed
        THEN [exc |-> "none", val |-> IF signed /\ t[1] = "-" THEN 0 - n ELSE n]
        ELSE [exc |-> "ValueError", val |-> 0]

\* Python: a >= b on 2-tuples of integers
TupleGE(a, b) == a[1] > b[1] \/ (a[1] = b[1] /\ a[2] >= b[2])

\* Python: str(b) of a bool
PyStrBool(b) == IF b THEN "True" ELSE "False"

(***************************************************************************)
(* Literals of the source                                                  *)
(***************************************************************************)
TagPR0 == <<"_", "P", "R", "0">>
TagPR3 == <<"_", "P", "R", "3">>
CommaSpace == <<",", " ">>
Deep == <<"d", "e", "e", "p">>
NoneStr == <<"N", "o", "n", "e">>
Unknown == <<"U", "n", "k", "n", "o", "w", "n">>
Ten == <<"1", "0">>
RuntimeD3Status ==
    <<"R", "u", "n", "t", "i", "m", "e", " ", "D", "3", " ", "s", "t", "a", "t", "u", "s">>
\* NVIDIA_FILES["udev"]["value"], the rule text, as one chunk per paragraph
UdevValue ==
    <<"# Enable runtime PM for NVIDIA VGA/3D controller devices on driver bind ...\n\n",
      "# Disable runtime PM for NVIDIA VGA/3D controller devices on driver unbind ...\n">>

KernelMajor == 4
KernelMinor == 18

ExtractKeys ==
    {"kernel", "chassis", "acpi", "s3", "rtd3_status", "power_state", "runtime_status"}
ValidateKeys == {"kernel", "chassis", "acpi", "s3", "udev"}

(***************************************************************************)
(* _extract_data and _validate                                             *)
(***************************************************************************)
Ok(v) == [exc |-> "none", val |-> v]
Raise(e) == [exc |-> e, val |-> <<>>]

\* case "rtd3_status": the first line, then the text after its first colon
ExtractRtd3(data) ==
    LET lines == SplitLines(data)
    IN  IF lines = <<>> THEN Raise("IndexError")
        ELSE LET temp == lines[1]
             IN  IF Contains(RuntimeD3Status, temp)
                 THEN LET parts == SplitOnce(":", temp)
                      IN  IF Len(parts) < 2 THEN Raise("IndexError")
                          ELSE Ok(Strip(parts[2]))
                 ELSE Ok(<<>>)

ExtractData(value, data) ==
    CASE value = "kernel" ->
            LET temp == SplitWS(Strip(data))
            IN  Ok(IF Len(temp) >= 3 THEN temp[3] ELSE Unknown)
      [] value = "chassis" -> Ok(Strip(data))
      [] value = "acpi" ->
            Ok(Join(CommaSpace,
                    SelectSeq(<<TagPR0, TagPR3>>, LAMBDA tag : Contains(tag, data))))
      [] value = "s3" -> Ok(IF Contains(Deep, data) THEN Deep ELSE NoneStr)
      [] value = "rtd3_status" -> ExtractRtd3(data)
      [] value = "power_state" -> Ok(Strip(data))
      [] value = "runtime_status" -> Ok(Strip(data))
      [] OTHER -> Ok(<<>>)

\* case "kernel": int() of the first two dot-separated components
ValidateKernel(data) ==
    LET nums == SplitOn(".", data)
    IN  IF Len(nums) >= 2
        THEN LET first == PyInt(nums[1])
                 second == PyInt(nums[2])
             IN  IF first.exc # "none" \/ second.exc # "none"
                 THEN [exc |-> "ValueError", val |-> FALSE]
                 ELSE [exc |-> "none",
                       val |-> TupleGE(<<first.val, second.val>>,
                                       <<KernelMajor, KernelMinor>>)]
        ELSE [exc |-> "none", val |-> TupleGE(<<-1, -1>>, <<KernelMajor, KernelMinor>>)]

Validate(value, data) ==
    CASE value = "kernel" -> ValidateKernel(data)
      [] value = "chassis" -> [exc |-> "none", val |-> (Ten = data)]
      [] value = "acpi" ->
            [exc |-> "none", val |-> Contains(TagPR0, data) /\ Contains(TagPR3, data)]
      [] value = "s3" -> [exc |-> "none", val |-> Contains(Deep, data)]
      [] value = "udev" -> [exc |-> "none", val |-> Contains(UdevValue, data)]
      [] OTHER -> [exc |-> "none", val |-> FALSE]

(***************************************************************************)
(* The path tables: SYS_FILES, DGPU_FILES, BAT_FILES, NVIDIA_FILES.  A     *)
(* path is a sequence of chunks, so that str.format and the ".bak" suffix  *)
(* are concatenations.                                                     *)
(***************************************************************************)
SysKeys == <<"chassis", "acpi", "kernel", "s3">>
SysFiles(key) ==
    CASE key = "chassis" -> <<"/sys/class/dmi/id/chassis_type">>
      [] key = "acpi" -> <<"/sys/firmware/acpi/tables/DSDT">>
      [] key = "kernel" -> <<"/proc/version">>
      [] key = "s3" -> <<"/sys/power/mem_sleep">>

GpusDir == <<"/proc/driver/nvidia/gpus/">>
\* the keys of DGPU_FILES other than "gpus", in dictionary order
DgpuKeys == <<"rtd3_status", "power_state", "runtime_status">>
\* DGPU_FILES[key].format(slot)
DgpuFile(key, slot) ==
    CASE key = "rtd3_status" -> <<"/proc/driver/nvidia/gpus/">> \o slot \o <<"/power">>
      [] key = "power_state" -> <<"/sys/bus/pci/devices/">> \o slot \o <<"/power_state">>
      [] key = "runtime_status" ->
            <<"/sys/bus/pci/devices/">> \o slot \o <<"/power/runtime_status">>

PowerSupplyDir == <<"/sys/class/power_supply/">>
\* BAT_FILES["power_now"].format(batt)
PowerNowFile(batt) == <<"/sys/class/power_supply/">> \o batt \o <<"/power_now">>
BatTag == <<"B", "A", "T">>

\* the keys of NVIDIA_FILES, in dictionary order
NvidiaKeys == <<"udev", "modprobe">>
NvidiaPaths(k) ==
    CASE k = "udev" ->
            << <<"/lib/udev/rules.d", "/", "80-nvidia-pm.rules">>,
               <<"/etc/udev/rules.d", "/", "80-nvidia-pm.rules">> >>
      [] k = "modprobe" ->
            << <<"/etc/modprobe.d", "/", "nvidia-pm.conf">>,
               <<"/etc/modprobe.d", "/", "nvidia.conf">> >>

(***************************************************************************)
(* Basic operations: _read_file, _list_dir, _find_file, _power_watts       *)
(***************************************************************************)
\* a byte that is not valid UTF-8
BadByte == "0xFF"

\* text mode: "\r\n" and "\r" are read as "\n"
RECURSIVE UniversalNewlines(_)
UniversalNewlines(s) ==
    IF s = <<>> THEN <<>>
    ELSE IF s[1] = "\r"
         THEN IF Len(s) >= 2 /\ s[2] = "\n"
              THEN <<"\n">> \o UniversalNewlines(SubSeq(s, 3, Len(s)))
              ELSE <<"\n">> \o UniversalNewlines(Tail(s))
         ELSE <<s[1]>> \o UniversalNewlines(Tail(s))

\* _read_file(path, mode) on the nodes nd: every failure is caught and reads as ""
ReadFile(nd, path, mode) ==
    IF path \notin DOMAIN nd THEN <<>>
    ELSE IF mode = "rb"
         THEN SelectSeq(nd[path], LAMBDA c : c # BadByte)
         ELSE IF \E i \in 1..Len(nd[path]) : nd[path][i] = BadByte
              THEN <<>>
              ELSE UniversalNewlines(nd[path])

\* _list_dir(path): every failure is caught and lists as []
ListDir(ls, path) == IF path \in DOMAIN ls THEN ls[path] ELSE <<>>

\* os.path.exists(path), for the files and directories of the model
Exists(files, ds, path) == path \in DOMAIN files \/ path \in ds

\* _find_file(paths): the first path that exists, "" when none does
NotFound == <<>>

\* a faulty variant of FindFile: the loop without its break, the last path that exists
RECURSIVE FindFileNoBreak(_, _, _)
FindFileNoBreak(files, ds, paths) ==
    IF paths = <<>> THEN NotFound
    ELSE IF Exists(files, ds, paths[Len(paths)]) THEN paths[Len(paths)]
    ELSE FindFileNoBreak(files, ds, SubSeq(paths, 1, Len(paths) - 1))

RECURSIVE FindFile(_, _, _)
FindFile(files, ds, paths) ==
    IF paths = <<>> THEN NotFound
    ELSE IF Exists(files, ds, paths[1]) THEN paths[1]
    ELSE FindFile(files, ds, Tail(paths))

\* _power_watts(value): int(value), -1 when it does not parse, times 10**-6;
\* the result is the number of millionths of a watt
PowerWatts(value) ==
    LET r == PyInt(value) IN IF r.exc = "none" THEN r.val ELSE -1

RECURSIVE DecStr(_)
DecStr(n) ==
    LET d == <<"0", "1", "2", "3", "4", "5", "6", "7", "8", "9">>
    IN  IF n < 10 THEN <<d[n + 1]>> ELSE DecStr(n \div 10) \o <<d[(n % 10) + 1]>>

\* f"{power_now:.2f} W" of a value given in millionths: rounded to hundredths,
\* the sign kept even when the rounded value is zero.  A value exactly half way
\* between two hundredths is rounded by the binary float nearest to it, which
\* this fixed-point model does not hold: no case is given for it.
FormatWatts(micro) ==
    LET neg == micro < 0
        a == IF neg THEN 0 - micro ELSE micro
        q == a \div 10000
        r == a % 10000
        cents == CASE r > 5000 -> q + 1 [] r < 5000 -> q
        frac == cents % 100
    IN  (IF neg THEN <<"-">> ELSE <<>>) \o DecStr(cents \div 100) \o <<".">>
        \o <<DecStr(frac \div 10)[1], DecStr(frac % 10)[1]>> \o <<" ", "W">>

(***************************************************************************)
(* _create_file and install.  A file's content is a sequence of chunks.    *)
(***************************************************************************)
\* f"{path}.bak"
Bak(path) == path \o <<".bak">>

\* os.path.dirname(path): what precedes the last "/"
Dirname(path) ==
    SubSeq(path, 1, Max({i \in 1..Len(path) : path[i] = "/"}) - 1)

\* NVIDIA_FILES["modprobe"]["value_template"].format(power_mode, enable_firmware),
\* one chunk per line
ModprobeValue(power_mode, enable_firmware) ==
    <<"options nvidia NVreg_DynamicPowerManagement=0x0" \o DecStr(power_mode)[1] \o "\n",
      "options nvidia NVreg_EnableGpuFirmware=" \o DecStr(enable_firmware)[1] \o "\n">>

PowerModes == {0, 1, 2}
FirmwareFlags == {0, 1}

\* what the filesystem does to one _create_file call: the step that fails, if it
\* is reached, and for a failing write the chunks that reached the file before
FailSteps == {"none", "rename", "makedirs", "open", "write"}
Faults(data) ==
    {[step |-> st, kept |-> 0] : st \in FailSteps \ {"write"}}
    \cup {[step |-> "write", kept |-> k] : k \in 0..(Len(data) - 1)}

Remove(files, path) == [q \in DOMAIN files \ {path} |-> files[q]]
Put(files, path, content) == [q \in DOMAIN files \cup {path} |->
                                 IF q = path THEN content ELSE files[q]]

\* a faulty variant of Rename: a rename that leaves an existing backup_path as it is
RenameKeepsOldBackup(files, path, backup_path) ==
    IF backup_path \in DOMAIN files THEN Remove(files, path)
    ELSE Put(Remove(files, path), backup_path, files[path])

\* a faulty variant of Rename: the existing file is truncated in place of being moved
RenameLeavesEmpty(files, path, backup_path) ==
    Put(Put(files, path, <<>>), backup_path, <<>>)

\* os.rename(path, backup_path): the file moves, replacing what backup_path held
Rename(files, path, backup_path) == Put(Remove(files, path), backup_path, files[path])

\* a faulty variant of Escapes: a handler that catches nothing
EscapesUncaught(step) == TRUE

\* whether the exception of a failed step leaves _create_file: the handler of
\* line 164 catches every Exception, and the filesystem's errors are OSErrors
Escapes(step) == FALSE

\* _create_file(path, data) on the files and directories given, under fault.
\* The outcome: the files and directories afterwards, the step that failed
\* ("none": installed), whether the rename happened, and whether an exception
\* left the function.
CreateFile(files, ds, path, data, fault) ==
    LET existed == Exists(files, ds, path)
        renameFails == existed /\ fault.step = "rename"
        renamed == existed /\ ~renameFails
        files1 == IF renamed THEN Rename(files, path, Bak(path)) ELSE files
        needDir == ~Exists(files1, ds, Dirname(path))
        out(f, d, st) == [fs |-> f, dirs |-> d, step |-> st, renamed |-> renamed,
                          raised |-> st # "none" /\ Escapes(st)]
    IN  IF renameFails THEN out(files, ds, "rename")
        ELSE IF needDir /\ fault.step = "makedirs" THEN out(files1, ds, "makedirs")
        ELSE LET ds1 == IF needDir THEN ds \cup {Dirname(path)} ELSE ds
             IN  IF fault.step = "open" THEN out(files1, ds1, "open")
                 ELSE IF fault.step = "write"
                      THEN out(Put(files1, path, SubSeq(data, 1, fault.kept)), ds1, "write")
                      ELSE out(Put(files1, path, data), ds1, "none")

\* what is remembered of a _create_file call
CallRecord(cmd, files, path, data, r) ==
    [cmd |-> cmd, path |-> path, data |-> data,
     existed |-> path \in DOMAIN files,
     pre |-> IF path \in DOMAIN files THEN files[path] ELSE <<>>,
     bakExisted |-> Bak(path) \in DOMAIN files,
     preBak |-> IF Bak(path) \in DOMAIN files THEN files[Bak(path)] ELSE <<>>,
     step |-> r.step, renamed |-> r.renamed, raised |-> r.raised]

\* the history keeps the last two calls
Remember(h, recs) ==
    LET all == h \o recs
    IN  IF Len(all) <= 2 THEN all ELSE SubSeq(all, Len(all) - 1, Len(all))

\* the path install hands to _create_file for the file k, lines 233-234 and 238-239
InstallTarget(files, ds, k) ==
    LET found == FindFile(files, ds, NvidiaPaths(k))
    IN  IF found # NotFound THEN found ELSE NvidiaPaths(k)[1]

\* install(power_mode, enable_firmware): the udev file, then the modprobe file;
\* an exception leaving the first _create_file would end install there
Install(files, ds, power_mode, enable_firmware, fault1, fault2) ==
    LET udev_path == InstallTarget(files, ds, "udev")
        r1 == CreateFile(files, ds, udev_path, UdevValue, fault1)
        rec1 == CallRecord("install", files, udev_path, UdevValue, r1)
        modprobe_path == InstallTarget(r1.fs, r1.dirs, "modprobe")
        modprobe_data == ModprobeValue(power_mode, enable_firmware)
        r2 == CreateFile(r1.fs, r1.dirs, modprobe_path, modprobe_data, fault2)
        rec2 == CallRecord("install", r1.fs, modprobe_path, modprobe_data, r2)
    IN  IF r1.raised THEN [fs |-> r1.fs, dirs |-> r1.dirs, recs |-> <<rec1>>]
        ELSE [fs |-> r2.fs, dirs |-> r2.dirs, recs |-> <<rec1, rec2>>]

(***************************************************************************)
(* Commands: verify and state.  A command's outcome is [cmd, exc, rows]:   *)
(* the rows handed to _print_table, or the exception that ended it.        *)
(***************************************************************************)
Dashes == <<"-", "-", "-", "-", "-">>

\* one pass of verify's loop body, lines 195-200
VerifyRow(nd, key) ==
    LET mode == IF key = "acpi" THEN "rb" ELSE "r"
        raw_file == ReadFile(nd, SysFiles(key), mode)
        data == ExtractData(key, raw_file)
        supported == IF data.exc = "none" THEN Validate(key, data.val)
                     ELSE [exc |-> data.exc, val |-> FALSE]
    IN  [exc |-> supported.exc,
         row |-> <<(<<key>>), data.val, <<PyStrBool(supported.val)>> >>]

\* a loop that appends one row per pass and stops at the first exception;
\* results[i] is the outcome of pass i
RECURSIVE Collect(_, _)
Collect(results, acc) ==
    IF results = <<>> THEN [exc |-> "none", rows |-> acc]
    ELSE IF results[1].exc # "none" THEN [exc |-> results[1].exc, rows |-> acc]
    ELSE Collect(Tail(results), Append(acc, results[1].row))

Verify(nd) ==
    LET r == Collect([i \in 1..Len(SysKeys) |-> VerifyRow(nd, SysKeys[i])], <<>>)
    IN  IF r.exc = "none" THEN [cmd |-> "verify", exc |-> "none", rows |-> r.rows]
        ELSE [cmd |-> "verify", exc |-> r.exc, rows |-> <<>>]

\* one pass of the inner loop of state, lines 210-213
SlotRow(nd, slot, key) ==
    LET raw_file == ReadFile(nd, DgpuFile(key, slot), "r")
        data == ExtractData(key, raw_file)
    IN  [exc |-> data.exc, row |-> <<(<<key>>), data.val>>]

\* the slot loop, lines 206-214: rows is bound anew for every slot, so after the
\* loop it holds the last slot's rows, and is unbound when there was no slot
RECURSIVE SlotLoop(_, _, _)
SlotLoop(nd, slots, local) ==
    IF slots = <<>> THEN [exc |-> "none", local |-> local]
    ELSE LET r == Collect([i \in 1..Len(DgpuKeys) |-> SlotRow(nd, slots[1], DgpuKeys[i])], <<>>)
         IN  IF r.exc # "none" THEN [exc |-> r.exc, local |-> local]
             ELSE SlotLoop(nd, Tail(slots),
                           [bound |-> TRUE, rows |-> Append(r.rows, <<Dashes, Dashes>>)])

\* one pass of the battery loop, lines 218-222
BattRow(nd, batt) ==
    [exc |-> "none",
     row |-> <<batt, FormatWatts(PowerWatts(ReadFile(nd, PowerNowFile(batt), "r")))>>]

\* one pass of the config-file loop, lines 225-227
ConfRow(files, ds, k) ==
    LET valid_path == FindFile(files, ds, NvidiaPaths(k))
    IN  [exc |-> "none",
         row |-> <<(<<k>>), IF valid_path # NotFound THEN <<"Found">> ELSE <<"Not found">> >>]

State(nd, ls, files, ds) ==
    LET slots == ListDir(ls, GpusDir)
        afterSlots == SlotLoop(nd, slots, [bound |-> FALSE, rows |-> <<>>])
        batts == SelectSeq(ListDir(ls, PowerSupplyDir), LAMBDA bat : Contains(BatTag, bat))
        crash(e) == [cmd |-> "state", exc |-> e, rows |-> <<>>]
    IN  IF afterSlots.exc # "none" THEN crash(afterSlots.exc)
        ELSE IF ~afterSlots.local.bound THEN crash("UnboundLocalError")
        ELSE LET withBatts == Collect([i \in 1..Len(batts) |-> BattRow(nd, batts[i])],
                                      afterSlots.local.rows)
                 withDash == Append(withBatts.rows, <<Dashes, Dashes>>)
                 withConf == Collect([i \in 1..Len(NvidiaKeys) |->
                                        ConfRow(files, ds, NvidiaKeys[i])], withDash)
             IN  [cmd |-> "state", exc |-> "none", rows |-> withConf.rows]

(***************************************************************************)
(* The raw texts the pure calls are tried on                               *)
(***************************************************************************)
Frags ==
    { RuntimeD3Status, <<":">>, <<" ">>, <<"\n">>, <<".">>, <<"x">>,
      <<"4">>, <<"5">>, <<"1", "8">>, Deep, TagPR0, TagPR3 }

RECURSIVE Flatten(_)
Flatten(ss) == IF ss = <<>> THEN <<>> ELSE ss[1] \o Flatten(Tail(ss))

Texts == { Flatten(fs0) : fs0 \in UNION { [1..n -> Frags] : n \in 0..MaxFrags } }

NoCall == [fn |-> "none", key |-> "none", exc |-> "none", val |-> <<>>, verdict |-> FALSE]
NoScan == [cmd |-> "none", exc |-> "none", rows |-> <<>>]
NoListing == [gpus |-> <<>>, power_supply |-> <<>>]

\* the state of the parts a specification leaves alone
IdleFs == fs = <<>> /\ dirs = {} /\ hist = <<>> /\ ncalls = 0
IdleScan == nodes = <<>> /\ listing = NoListing /\ scan = NoScan
IdlePure == text = <<>> /\ call = NoCall

(***************************************************************************)
(* Specification SpecPure: one call of _extract_data or _validate on a     *)
(* raw text                                                                *)
(***************************************************************************)
InitPure ==
    /\ text \in Texts
    /\ call = NoCall
    /\ IdleFs /\ IdleScan

ExtractCall ==
    /\ call = NoCall
    /\ \E k \in ExtractKeys :
          LET r == ExtractData(k, text)
          IN  call' = [fn |-> "extract", key |-> k, exc |-> r.exc, val |-> r.val,
                       verdict |-> FALSE]
    /\ UNCHANGED <<text, fs, dirs, hist, ncalls, nodes, listing, scan>>

ValidateCall ==
    /\ call = NoCall
    /\ \E k \in ValidateKeys :
          LET r == Validate(k, text)
          IN  call' = [fn |-> "validate", key |-> k, exc |-> r.exc, val |-> <<>>,
                       verdict |-> r.val]
    /\ UNCHANGED <<text, fs, dirs, hist, ncalls, nodes, listing, scan>>

NextPure == ExtractCall \/ ValidateCall

SpecPure == InitPure /\ [][NextPure]_vars

(***************************************************************************)
(* Specification SpecScan: one verify or state command on a machine whose  *)
(* nodes are readable or not                                               *)
(***************************************************************************)
KernelGood ==
    <<"L", "i", "n", "u", "x", " ", "v", "e", "r", "s", "i", "o", "n", " ", "5", ".",
      "1", "9", ".", "0", "-", "g", "e", "n", "e", "r", "i", "c", " ", ".", ".", ".">>
KernelOld ==
    <<"L", "i", "n", "u", "x", " ", "v", "e", "r", "s", "i", "o", "n", " ", "4", ".",
      "1", "7", ".", "2">>
KernelOdd ==
    <<"L", "i", "n", "u", "x", " ", "v", "e", "r", "s", "i", "o", "n", " ", "6", ".",
      "x", "-", "r", "c", "1">>
ChassisNotebook == <<"1", "0", "\n">>
ChassisDesktop == <<"3", "\n">>
AcpiBoth == <<BadByte>> \o TagPR0 \o <<"x", BadByte>> \o TagPR3
AcpiBothReversed == TagPR3 \o <<BadByte, "\r">> \o TagPR0
AcpiOne == <<"x">> \o TagPR0
SleepDeep ==
    <<"[", "s", "2", "i", "d", "l", "e", "]", " ", "d", "e", "e", "p">>
SleepShallow ==
    <<"[", "s", "2", "i", "d", "l", "e", "]">>
Rtd3Good ==
    <<"R", "u", "n", "t", "i", "m", "e", " ", "D", "3", " ", "s", "t", "a", "t", "u",
      "s", ":", " ", " ", " ", " ", " ", " ", " ", " ", " ", " ", "E", "n", "a", "b",
      "l", "e", "d", " ", "(", "f", "i", "n", "e", "-", "g", "r", "a", "i", "n", "e",
      "d", ")", "\n", "T", "e", "g", "r", "a", " ", "i", "G", "P", "U", ":", "\n">>
PowerStateGood == <<"D", "3", "c", "o", "l", "d", "\n">>
RuntimeStatusGood ==
    <<"s", "u", "s", "p", "e", "n", "d", "e", "d", "\n">>
PowerNowGood == <<"2", "5", "0", "0", "0", "0", "0", "\n">>

SysOptions(key) ==
    CASE key = "chassis" -> {ChassisNotebook, ChassisDesktop}
      [] key = "acpi" -> {AcpiBoth, AcpiBothReversed, AcpiOne}
      [] key = "kernel" -> {KernelGood, KernelOld, KernelOdd}
      [] key = "s3" -> {SleepDeep, SleepShallow}

SysKeySet == {SysKeys[i] : i \in 1..Len(SysKeys)}

\* every choice of readable system nodes and their texts
SysNodes ==
    { f \in UNION { [{SysFiles(k) : k \in D} -> UNION {SysOptions(k) : k \in SysKeySet}]
                    : D \in SUBSET SysKeySet } :
        \A k \in SysKeySet : SysFiles(k) \in DOMAIN f => f[SysFiles(k)] \in SysOptions(k) }

SlotName(i) == <<"0000:0", DecStr(i)[1], ":00.0">>
SupplyName(i) ==
    IF i % 2 = 1 THEN BatTag \o DecStr(i \div 2) ELSE <<"A", "C">> \o DecStr(i \div 2)

DgpuText(key) ==
    CASE key = "rtd3_status" -> Rtd3Good
      [] key = "power_state" -> PowerStateGood
      [] key = "runtime_status" -> RuntimeStatusGood

\* the nodes of n slots and m power supplies when all of them are readable
DeviceNodePaths(n, m) ==
    {DgpuFile(DgpuKeys[j], SlotName(i)) : i \in 1..n, j \in 1..Len(DgpuKeys)}
    \cup {PowerNowFile(SupplyName(i)) : i \in {x \in 1..m : x % 2 = 1}}

DeviceNodeText(p) ==
    IF \E i \in 1..MaxSupplies : p = PowerNowFile(SupplyName(i)) THEN PowerNowGood
    ELSE DgpuText(CHOOSE k \in {DgpuKeys[j] : j \in 1..Len(DgpuKeys)} :
                    \E i \in 1..MaxSlots : p = DgpuFile(k, SlotName(i)))

\* the config files found on the machine before a scan
ScanFiles ==
    { [p \in E |-> <<"old">>] : E \in SUBSET {NvidiaPaths("udev")[2], NvidiaPaths("modprobe")[1]} }

InitVerifyScan ==
    /\ nodes \in SysNodes
    /\ listing = <<>>
    /\ fs = <<>>

InitStateScan ==
    /\ \E n \in 0..MaxSlots, m \in 0..MaxSupplies :
          /\ listing = (GpusDir :> [i \in 1..n |-> SlotName(i)])
                       @@ (PowerSupplyDir :> [i \in 1..m |-> SupplyName(i)])
          /\ \E D \in SUBSET DeviceNodePaths(n, m) : nodes = [p \in D |-> DeviceNodeText(p)]
    /\ fs \in ScanFiles

InitScan ==
    /\ InitVerifyScan \/ InitStateScan
    /\ dirs = {} /\ hist = <<>> /\ ncalls = 0
    /\ scan = NoScan
    /\ IdlePure

VerifyCmd ==
    /\ scan = NoScan
    /\ scan' = Verify(nodes)
    /\ UNCHANGED <<text, call, fs, dirs, hist, ncalls, nodes, listing>>

StateCmd ==
    /\ scan = NoScan
    /\ scan' = State(nodes, listing, fs, dirs)
    /\ UNCHANGED <<text, call, fs, dirs, hist, ncalls, nodes, listing>>

NextScan == VerifyCmd \/ StateCmd

SpecScan == InitScan /\ [][NextScan]_vars

(***************************************************************************)
(* Specification SpecCreate: _create_file called again and again on paths  *)
(* whose file and backup exist or not                                      *)
(***************************************************************************)
CreatePaths == {NvidiaPaths("udev")[1], NvidiaPaths("modprobe")[2]}
CreateData == {<<"c1">>, <<"c2", "c2'">>}
OldData == <<"old">>
OldBackup == <<"old backup">>

\* a directory exists when a file in it does
Populated(files, ds) == \A q \in DOMAIN files : Dirname(q) \in ds

InitCreate ==
    /\ \E E \in SUBSET (CreatePaths \cup {Bak(q) : q \in CreatePaths}) :
          fs = [q \in E |-> IF q \in CreatePaths THEN OldData ELSE OldBackup]
    /\ dirs \in SUBSET {Dirname(q) : q \in CreatePaths}
    /\ Populated(fs, dirs)
    /\ hist = <<>> /\ ncalls = 0
    /\ IdlePure /\ IdleScan

CreateFileCall ==
    /\ ncalls < MaxCalls
    /\ \E path \in CreatePaths, data \in CreateData :
          \E fault \in Faults(data) :
             LET r == CreateFile(fs, dirs, path, data, fault)
             IN  /\ fs' = r.fs
                 /\ dirs' = r.dirs
                 /\ hist' = Remember(hist, <<CallRecord("create", fs, path, data, r)>>)
    /\ ncalls' = ncalls + 1
    /\ UNCHANGED <<text, call, nodes, listing, scan>>

NextCreate == CreateFileCall

SpecCreate == InitCreate /\ [][NextCreate]_vars

(***************************************************************************)
(* Specification SpecInstall: the install command run on a machine where   *)
(* any of the candidate files, their backups and their directories exist   *)
(***************************************************************************)
Candidates == {NvidiaPaths(k)[j] : k \in {"udev", "modprobe"}, j \in 1..2}

InitInstall ==
    /\ \E E \in SUBSET Candidates, withBackups \in BOOLEAN :
          fs = [q \in E \cup (IF withBackups THEN {Bak(c) : c \in E} ELSE {}) |->
                   IF q \in E THEN OldData ELSE OldBackup]
    /\ dirs \in SUBSET {Dirname(q) : q \in Candidates}
    /\ Populated(fs, dirs)
    /\ hist = <<>> /\ ncalls = 0
    /\ IdlePure /\ IdleScan

InstallCmd ==
    /\ ncalls < MaxInstalls
    /\ \E power_mode \in PowerModes, enable_firmware \in FirmwareFlags :
          \E fault1 \in Faults(UdevValue),
             fault2 \in Faults(ModprobeValue(power_mode, enable_firmware)) :
             LET r == Install(fs, dirs, power_mode, enable_firmware, fault1, fault2)
             IN  /\ fs' = r.fs
                 /\ dirs' = r.dirs
                 /\ hist' = Remember(hist, r.recs)
    /\ ncalls' = ncalls + 1
    /\ UNCHANGED <<text, call, nodes, listing, scan>>

NextInstall == InstallCmd

SpecInstall == InitInstall /\ [][NextInstall]_vars

(***************************************************************************)
(* Properties                                                              *)
(***************************************************************************)
Last == hist[Len(hist)]
Prev == hist[Len(hist) - 1]
Holds(files, path, content) == path \in DOMAIN files /\ files[path] = content
IsPrefix(a, b) == Len(a) <= Len(b) /\ SubSeq(b, 1, Len(a)) = a

C8_ExistingBackupStopsInstall ==
    Len(hist) >= 1 =>
       /\ (Last.existed /\ ~Last.bakExisted /\ Last.step = "none")
             => Holds(fs, Bak(Last.path), Last.pre)
       /\ (Last.existed /\ Last.bakExisted)
             => /\ Last.step # "none"
                /\ Holds(fs, Bak(Last.path), Last.preBak)
                /\ ~Holds(fs, Last.path, Last.data)

\* C10, as claimed: one _create_file call leaves the content p held before at p
\* (no rename) or at p.bak (renamed), whichever step fails; a failure after the
\* rename leaves p absent and the original only at p.bak.
C10_OriginalKeptPathAbsent ==
    (Len(hist) >= 1 /\ Last.existed) =>
       /\ IF Last.renamed THEN Holds(fs, Bak(Last.path), Last.pre)
                          ELSE Holds(fs, Last.path, Last.pre)
       /\ (Last.renamed /\ Last.step # "none") => Last.path \notin DOMAIN fs

\* C10, amended: one _create_file call leaves the content p held before at p
\* (no rename) or at p.bak (renamed), whichever step fails; after the rename, a
\* failure to open p leaves p absent, and a failure while writing leaves p
\* holding the part of the new content written so far, not all of it.
C10_OriginalKept ==
    (Len(hist) >= 1 /\ Last.existed) =>
       /\ IF Last.renamed THEN Holds(fs, Bak(Last.path), Last.pre)
                          ELSE Holds(fs, Last.path, Last.pre)
       /\ (Last.renamed /\ Last.step = "open") => Last.path \notin DOMAIN fs
       /\ (Last.renamed /\ Last.step = "write")
             => /\ Last.path \in DOMAIN fs
                /\ IsPrefix(fs[Last.path], Last.data)
                /\ fs[Last.path] # Last.data
       /\ Last.step \in {"none", "rename", "open", "write"}

C10_Witness ==
    /\ Len(hist) >= 1 /\ Last.existed /\ Last.renamed /\ Last.step = "write"
    /\ Holds(fs, Bak(Last.path), Last.pre)
    /\ Last.path \in DOMAIN fs

\* C5: in install, a failure at any step of a _create_file call skips that
\* call's remaining steps and raises nothing; both files are attempted whatever
\* happens to the first; when the udev install fails the modprobe install still
\* completes if nothing fails in it, and when the modprobe install fails after
\* the udev install succeeded the udev file stays updated.
StepsSkipped(rec) ==
    /\ rec.step = "rename"
          => /\ Holds(fs, rec.path, rec.pre)
             /\ (Bak(rec.path) \in DOMAIN fs) = rec.bakExisted
             /\ rec.bakExisted => fs[Bak(rec.path)] = rec.preBak
    /\ rec.step = "makedirs" => (Dirname(rec.path) \notin dirs /\ rec.path \notin DOMAIN fs)
    /\ rec.step = "open" => rec.path \notin DOMAIN fs
    /\ rec.step = "write" => ~Holds(fs, rec.path, rec.data)

C5_FailureIsLocal ==
    ncalls >= 1 =>
       /\ Len(hist) = 2
       /\ Prev.path \in {NvidiaPaths("udev")[j] : j \in 1..2}
       /\ Last.path \in {NvidiaPaths("modprobe")[j] : j \in 1..2}
       /\ ~Prev.raised /\ ~Last.raised
       /\ StepsSkipped(Prev) /\ StepsSkipped(Last)
       /\ Last.step = "none" => Holds(fs, Last.path, Last.data)
       /\ Prev.step = "none" => Holds(fs, Prev.path, UdevValue)

C5_Witness ==
    /\ ncalls >= 1 /\ Len(hist) = 2
    /\ Prev.step = "write" /\ Last.step = "none"
    /\ Holds(fs, Last.path, Last.data)

\* C2: for the udev file and for the modprobe file, install hands _create_file
\* the first candidate that exists when install is called, and the first
\* candidate when none exists; no other candidate and no other candidate's
\* backup changes; and _find_file returns "" exactly when no candidate exists.
SameFile(q) ==
    /\ (q \in DOMAIN fs) = (q \in DOMAIN fs')
    /\ q \in DOMAIN fs => fs'[q] = fs[q]

FirstExistingElseFirst(paths, target) ==
    \/ \E j \in 1..Len(paths) :
          /\ target = paths[j]
          /\ Exists(fs, dirs, paths[j])
          /\ \A i \in 1..(j - 1) : ~Exists(fs, dirs, paths[i])
    \/ /\ target = paths[1]
       /\ \A i \in 1..Len(paths) : ~Exists(fs, dirs, paths[i])

InstalledAt(k, rec) ==
    LET paths == NvidiaPaths(k)
    IN  /\ FirstExistingElseFirst(paths, rec.path)
        /\ \A j \in 1..Len(paths) :
              paths[j] # rec.path => SameFile(paths[j]) /\ SameFile(Bak(paths[j]))
        /\ rec.step = "none" => Holds(fs', rec.path, rec.data)
        /\ (FindFile(fs, dirs, paths) = NotFound)
              <=> (\A j \in 1..Len(paths) : ~Exists(fs, dirs, paths[j]))

C2_InstallTarget ==
    [][ ncalls' = ncalls + 1 =>
           /\ Len(hist') = 2
           /\ InstalledAt("udev", hist'[1])
           /\ InstalledAt("modprobe", hist'[2]) ]_vars

C2_Witness ==
    /\ ncalls >= 1 /\ Len(hist) = 2
    /\ Last.path = NvidiaPaths("modprobe")[2] /\ Last.existed /\ Last.step = "none"
    /\ Prev.path = NvidiaPaths("udev")[1] /\ ~Prev.existed /\ Prev.step = "none"
    /\ NvidiaPaths("modprobe")[1] \notin DOMAIN fs

\* C3: _extract_data returns a string and raises nothing, for every key and
\* every raw text, the empty text included.
C3_ExtractTotal == call.fn = "extract" => call.exc = "none"

\* C6: _validate("kernel", value) raises nothing and returns true iff the value
\* has two dot-separated components or more and (major, minor) >= (4, 18), where
\* major and minor are the first two components as integers, -1 for a component
\* that is no integer.
ComponentOrSentinel(c) == IF PyInt(c).exc = "none" THEN PyInt(c).val ELSE -1
KernelRule(value) ==
    LET nums == SplitOn(".", value)
    IN  /\ Len(nums) >= 2
        /\ TupleGE(<<ComponentOrSentinel(nums[1]), ComponentOrSentinel(nums[2])>>, <<4, 18>>)

C6_KernelRule ==
    (call.fn = "validate" /\ call.key = "kernel")
    => (call.exc = "none" /\ call.verdict = KernelRule(text))

\* C4: a verify or state scan that would reach its end if every read succeeded
\* still reaches it when the read of some file fails: it raises nothing, verify
\* gives its four rows, state gives its rows down to the two config-file rows.
SomeReadFails ==
    \/ scan.cmd = "verify" /\ \E i \in 1..Len(SysKeys) : SysFiles(SysKeys[i]) \notin DOMAIN nodes
    \/ /\ scan.cmd = "state"
       /\ LET slots == ListDir(listing, GpusDir)
              supplies == ListDir(listing, PowerSupplyDir)
          IN  \/ \E i \in 1..Len(slots), j \in 1..Len(DgpuKeys) :
                    DgpuFile(DgpuKeys[j], slots[i]) \notin DOMAIN nodes
              \/ \E i \in 1..Len(supplies) :
                    /\ Contains(BatTag, supplies[i])
                    /\ PowerNowFile(supplies[i]) \notin DOMAIN nodes

\* the machine with every unreadable node made readable
AllReadable ==
    LET slots == ListDir(listing, GpusDir)
        supplies == ListDir(listing, PowerSupplyDir)
        device == {DgpuFile(DgpuKeys[j], slots[i]) : i \in 1..Len(slots), j \in 1..Len(DgpuKeys)}
                  \cup {PowerNowFile(supplies[i]) : i \in 1..Len(supplies)}
        sys == {SysFiles(SysKeys[i]) : i \in 1..Len(SysKeys)}
        reference == (SysFiles("chassis") :> ChassisNotebook) @@ (SysFiles("acpi") :> AcpiBoth)
                     @@ (SysFiles("kernel") :> KernelGood) @@ (SysFiles("s3") :> SleepDeep)
    IN  [p \in DOMAIN nodes \cup device \cup sys |->
            IF p \in DOMAIN nodes THEN nodes[p]
            ELSE IF p \in sys THEN reference[p] ELSE DeviceNodeText(p)]

\* the scan made would reach its end if every read succeeded
EndsWhenAllReadable ==
    IF scan.cmd = "verify" THEN Verify(AllReadable).exc = "none"
    ELSE State(AllReadable, listing, fs, dirs).exc = "none"

C4_ScanSurvivesReadFailure ==
    (SomeReadFails /\ EndsWhenAllReadable) =>
       /\ scan.exc = "none"
       /\ scan.cmd = "verify" => Len(scan.rows) = Len(SysKeys)
       /\ scan.cmd = "state" =>
             /\ Len(scan.rows) >= 2
             /\ scan.rows[Len(scan.rows) - 1][1] = <<"udev">>
             /\ scan.rows[Len(scan.rows)][1] = <<"modprobe">>

\* C7: state reports the rtd3_status, power_state and runtime_status rows of
\* every listed slot, one row for every power-supply entry whose name contains
\* "BAT", and one presence row for each of the two config files, for any number
\* of slots and batteries, zero slots and several slots included (stated of the
\* scans in which every read succeeds).
RowsWithKey(key) == Cardinality({i \in 1..Len(scan.rows) : scan.rows[i][1] = key})

C7_StateReportsEveryDevice ==
    (scan.cmd = "state" /\ ~SomeReadFails) =>
       LET slots == ListDir(listing, GpusDir)
           supplies == ListDir(listing, PowerSupplyDir)
       IN  /\ scan.exc = "none"
           /\ \A j \in 1..Len(DgpuKeys) : RowsWithKey(<<DgpuKeys[j]>>) = Len(slots)
           /\ \A i \in 1..Len(supplies) :
                 Contains(BatTag, supplies[i]) => RowsWithKey(supplies[i]) = 1
           /\ RowsWithKey(<<"udev">>) = 1 /\ RowsWithKey(<<"modprobe">>) = 1

\* C9: with the kernel node holding "Linux version 5.19.0-generic ...", the
\* chassis node "10\n", an ACPI table holding both _PR0 and _PR3 and the sleep
\* node "[s2idle] deep", verify gives exactly the rows chassis, acpi, kernel, s3,
\* every verdict True, and the acpi value "_PR0, _PR3".
ReferenceMachine ==
    /\ \A i \in 1..Len(SysKeys) : SysFiles(SysKeys[i]) \in DOMAIN nodes
    /\ nodes[SysFiles("kernel")] = KernelGood
    /\ nodes[SysFiles("chassis")] = ChassisNotebook
    /\ Contains(TagPR0, nodes[SysFiles("acpi")])
    /\ Contains(TagPR3, nodes[SysFiles("acpi")])
    /\ nodes[SysFiles("s3")] = SleepDeep

C9_VerifyAllSatisfied ==
    (scan.cmd = "verify" /\ ReferenceMachine) =>
       /\ scan.exc = "none"
       /\ Len(scan.rows) = 4
       /\ \A i \in 1..4 : scan.rows[i][1] = <<SysKeys[i]>> /\ scan.rows[i][3] = <<"True">>
       /\ {SysKeys[i] : i \in 1..4} = {"chassis", "acpi", "kernel", "s3"}
       /\ scan.rows[1][2] = <<"1", "0">>
       /\ scan.rows[2][2] = <<"_", "P", "R", "0", ",", " ", "_", "P", "R", "3">>
       /\ scan.rows[3][2] = SubSeq(KernelGood, 15, 28)
       /\ scan.rows[4][2] = <<"d", "e", "e", "p">>

C9_Witness ==
    /\ scan.cmd = "verify" /\ ReferenceMachine
    /\ nodes[SysFiles("acpi")] = AcpiBothReversed
    /\ scan.exc = "none" /\ Len(scan.rows) = 4

====
